---- MODULE Spec2Model ----
(***************************************************************************)
(* A model of strip_id3.py: the ID3v2 header parser read_id3v2_header, the *)
(* ID3v1 probe check_id3v1 and the copy engine strip_id3.  A byte is a     *)
(* number in 0..255, a stream is a sequence of bytes with a read position. *)
(* Streams are binary files opened with open(path, "rb"), as main and the  *)
(* tests open them: a read at or past the end returns fewer bytes, a seek  *)
(* past the end succeeds, a seek before the start fails with OSError.      *)
(***************************************************************************)
EXTENDS Integers, Sequences, FiniteSets, TLC

VARIABLES
    call,            \* the entry point called: "read_id3v2_header" or "strip_id3"
    run,             \* 1: the first call; 2: strip_id3 called again on its output
    in_data,         \* the bytes of the input stream
    in_pos,          \* the input stream's read position
    init_pos,        \* the read position the input stream had before the call
    out_data,        \* the bytes written to the output stream
    bufsize,         \* strip_id3's bufsize argument
    pc,              \* where the call is; "returned" and "raised" are final
    error,           \* the exception raised ("none" while there is none)
    id3v2_header,    \* the header read_id3v2_header returned (NoHeader if none)
    has_id3v2,
    has_id3v1,
    start_position,
    end_position,
    buffer_cycles,
    last_bufsize,
    cycles,
    buffer,          \* the chunk last read by the copy-to-end-of-file loop
    bytes_written

vars == <<call, run, in_data, in_pos, init_pos, out_data, bufsize, pc, error,
          id3v2_header, has_id3v2, has_id3v1, start_position, end_position,
          buffer_cycles, last_bufsize, cycles, buffer, bytes_written>>

----------------------------------------------------------------------------
(* Program constants *)

\* b"TAG"
ID3v1_IDENTIFIER == <<84, 65, 71>>

ID3v1_LENGTH == 128

\* b"ID3"
ID3v2_IDENTIFIER == <<73, 68, 51>>

ID3v2_VERSION_LENGTH == 2

ID3v2_FLAGS_LENGTH == 1

ID3v2_SIZE_LENGTH == 4

ID3v2_HEADER_LENGTH ==
    Len(ID3v2_IDENTIFIER) + ID3v2_VERSION_LENGTH + ID3v2_FLAGS_LENGTH
        + ID3v2_SIZE_LENGTH

SUPPORTED_VERSIONS_with_v4 == {3, 4}

SUPPORTED_VERSIONS == {3}

DEFAULT_BUFFER_SIZE == 8192

----------------------------------------------------------------------------
(* Binary file streams *)

Min(a, b) == IF a <= b THEN a ELSE b

\* fp.read(n) at position pos: at most n bytes, fewer at the end of the file
Read(data, pos, n) ==
    IF pos >= Len(data) \/ n <= 0
    THEN << >>
    ELSE SubSeq(data, pos + 1, Min(pos + n, Len(data)))

----------------------------------------------------------------------------
(* read_id3v2_header *)

NoHeader ==
    [major_version |-> -1, revision |-> -1, unsynchronisation |-> FALSE,
     extended_header |-> FALSE, experimental |-> FALSE,
     other_flags |-> << >>, tag_size |-> -1]

\* bin(flags[0])[2:].zfill(8): the eight bits of a byte, most significant first
FlagsBitstring(b) == [i \in 1..8 |-> (b \div (2 ^ (8 - i))) % 2]

\* the size byte test of the loop: the byte is refused
SizeByteRefused(byte) == byte > 128

\* One turn of the size loop: tag_size += byte; tag_size <<= 7.  Python's
\* integers are unbounded and TLC's have 32 bits, so the model holds the
\* loop's tag_size by its quotient by 128 (it is 0 or was just shifted left
\* by 7): (128 * q + byte) << 7 has the quotient 128 * q + byte.
SizeAccumulate_assign(tag_size_q, byte) == byte

SizeAccumulate(tag_size_q, byte) == 128 * tag_size_q + byte

\* the size loop over the bytes fp.read(4) returned, then tag_size >>= 7,
\* which leaves the quotient; -1 when a byte is refused
RECURSIVE SizeLoop(_, _, _)
SizeLoop(bytes, i, tag_size_q) ==
    IF i > Len(bytes)
    THEN tag_size_q
    ELSE IF SizeByteRefused(bytes[i])
         THEN -1
         ELSE SizeLoop(bytes, i + 1, SizeAccumulate(tag_size_q, bytes[i]))

\* the whole function on a stream holding data, read position old_position:
\* the outcome, the read position it leaves and the header it returns
read_id3v2_header(data, old_position) ==
    LET identifier == Read(data, 0, Len(ID3v2_IDENTIFIER))
        version    == Read(data, Len(identifier), ID3v2_VERSION_LENGTH)
        flags      == Read(data, Len(identifier) + Len(version), ID3v2_FLAGS_LENGTH)
        size       == Read(data, Len(identifier) + Len(version) + Len(flags),
                           ID3v2_SIZE_LENGTH)
        bits       == FlagsBitstring(flags[1])
        tag_size   == SizeLoop(size, 1, 0)
    IN  IF identifier # ID3v2_IDENTIFIER
        THEN [outcome |-> "HeaderAbsent", pos |-> Len(identifier),
              header |-> NoHeader]
        ELSE IF Len(version) # ID3v2_VERSION_LENGTH
        THEN [outcome |-> "ValueError", pos |-> Len(identifier) + Len(version),
              header |-> NoHeader]
        ELSE IF version[1] = 255 \/ version[2] = 255
        THEN [outcome |-> "InvalidVersion",
              pos |-> Len(identifier) + Len(version), header |-> NoHeader]
        ELSE IF Len(flags) = 0
        THEN [outcome |-> "IndexError", pos |-> Len(identifier) + Len(version),
              header |-> NoHeader]
        ELSE IF tag_size = -1
        THEN [outcome |-> "InvalidSize",
              pos |-> Len(identifier) + Len(version) + Len(flags) + Len(size),
              header |-> NoHeader]
        ELSE [outcome |-> "ok", pos |-> old_position,
              header |->
                [major_version |-> version[1], revision |-> version[2],
                 unsynchronisation |-> bits[1] = 1,
                 extended_header |-> bits[2] = 1,
                 experimental |-> bits[3] = 1,
                 other_flags |-> SubSeq(bits, 4, 8),
                 tag_size |-> tag_size]]

\* the three failures raised as ID3v2HeaderError
ID3v2HeaderError == {"HeaderAbsent", "InvalidVersion", "InvalidSize"}

----------------------------------------------------------------------------
(* check_id3v1 *)

check_id3v1_inverted(data, old_position) ==
    IF Len(data) < ID3v1_LENGTH
    THEN [raised |-> TRUE, has |-> FALSE, offset |-> 0, pos |-> old_position]
    ELSE [raised |-> FALSE,
          has |-> Read(data, Len(data) - ID3v1_LENGTH, 3) # ID3v1_IDENTIFIER,
          offset |-> Len(data) - ID3v1_LENGTH, pos |-> old_position]

\* seek(-128, SEEK_END) fails with OSError on a file shorter than 128 bytes
check_id3v1(data, old_position) ==
    IF Len(data) < ID3v1_LENGTH
    THEN [raised |-> TRUE, has |-> FALSE, offset |-> 0, pos |-> old_position]
    ELSE [raised |-> FALSE,
          has |-> Read(data, Len(data) - ID3v1_LENGTH, 3) = ID3v1_IDENTIFIER,
          offset |-> Len(data) - ID3v1_LENGTH, pos |-> old_position]

----------------------------------------------------------------------------
(* The inputs explored *)

\* the largest tag size a header of a whole file declares
MaxTag == 3

\* the payload lengths explored are 0..MaxFill and 128..128+MaxFill
MaxFill == 2

\* the small bufsize arguments explored are 1..MaxBuf
MaxBuf == 2

\* the read positions a stream has before read_id3v2_header is called
MaxPos == 2

Header(major, revision, flags, size) ==
    ID3v2_IDENTIFIER \o <<major, revision, flags>> \o size

\* n payload bytes, neighbours distinct, none a letter of "ID3" or "TAG"
Plain(n) == [i \in 1..n |-> 1 + (i % 50)]

\* a 128-byte ID3v1 tag
V1Block == ID3v1_IDENTIFIER \o [i \in 1..(ID3v1_LENGTH - 3) |-> 100 + (i % 25)]

Prefixes(s) == {SubSeq(s, 1, n) : n \in 0..Len(s)}

SizeByteSamples == {0, 2, 127, 128, 200}

SizeQuads ==
    {<<a, b, c, d>> : a \in SizeByteSamples, b \in SizeByteSamples,
                      c \in SizeByteSamples, d \in SizeByteSamples}

\* headers whose version, revision and flags vary
VersionHeaders ==
    {Header(v, r, f, q) : v \in {0, 3, 4, 254, 255}, r \in {0, 255},
                          f \in {0, 32, 255}, q \in {<<0, 0, 2, 1>>}}

\* the streams read_id3v2_header is called on
ProbeStreams ==
    {Header(3, 0, 0, q) : q \in SizeQuads}
        \cup UNION {Prefixes(h) : h \in VersionHeaders}
        \cup UNION {Prefixes(Header(3, 0, 0, q)) : q \in {<<0, 0, 128, 5>>, <<1, 200, 0, 0>>}}
        \cup {Plain(n) : n \in 0..MaxFill}
        \cup {Header(3, 1, 224, <<0, 0, 0, 1>>) \o Plain(MaxFill)}

\* what a whole file starts with
FileHeads ==
    {<< >>}
        \cup {Header(3, 0, f, <<0, 0, 0, k>>) : f \in {0, 255}, k \in 0..MaxTag}
        \cup {Header(v, 0, 0, <<0, 0, 0, 0>>) : v \in {0, 4, 254, 255}}
        \cup {Header(3, 255, 0, <<0, 0, 0, 1>>), Header(3, 0, 0, <<0, 0, 0, 128>>),
              Header(3, 0, 0, <<0, 0, 1, 0>>), Header(3, 0, 0, <<0, 0, 0, 200>>),
              Header(4, 0, 0, <<0, 0, 0, 128>>)}

FillLens == (0..MaxFill) \cup {ID3v1_LENGTH + j : j \in 0..MaxFill}

\* what follows the header: plain bytes, bytes that start like an ID3v2
\* header, or bytes that end like an ID3v1 tag
FileMids ==
    {Plain(n) : n \in FillLens}
        \cup {Header(3, 0, 0, <<0, 0, 0, 0>>) \o Plain(n) : n \in FillLens}
        \cup {Header(4, 0, 0, <<0, 0, 0, 0>>) \o Plain(n) : n \in FillLens}
        \cup {Plain(n) \o V1Block : n \in FillLens}

FileTails == {<< >>, V1Block}

\* the files strip_id3 is called on
Files ==
    {h \o m \o t : h \in FileHeads, m \in FileMids, t \in FileTails}
        \cup UNION {Prefixes(Header(3, 0, 0, <<0, 0, 0, 1>>))}

BufSizes == (1..MaxBuf) \cup {DEFAULT_BUFFER_SIZE}

----------------------------------------------------------------------------
(* The calls *)

Init ==
    /\ call \in {"read_id3v2_header", "strip_id3"}
    /\ run = 1
    /\ in_data \in (IF call = "strip_id3" THEN Files ELSE ProbeStreams)
    /\ init_pos \in (IF call = "strip_id3" THEN {0} ELSE 0..MaxPos)
    /\ in_pos = init_pos
    /\ out_data = << >>
    /\ bufsize \in (IF call = "strip_id3" THEN BufSizes ELSE {DEFAULT_BUFFER_SIZE})
    /\ pc = "call"
    /\ error = "none"
    /\ id3v2_header = NoHeader
    /\ has_id3v2 = FALSE
    /\ has_id3v1 = FALSE
    /\ start_position = 0
    /\ end_position = 0
    /\ buffer_cycles = 0
    /\ last_bufsize = 0
    /\ cycles = 0
    /\ buffer = << >>
    /\ bytes_written = 0

\* a caller calls read_id3v2_header(fp) and gets a header or an exception
ProbeHeader ==
    /\ call = "read_id3v2_header"
    /\ pc = "call"
    /\ LET r == read_id3v2_header(in_data, in_pos)
       IN  /\ in_pos' = r.pos
           /\ id3v2_header' = r.header
           /\ error' = IF r.outcome = "ok" THEN "none" ELSE r.outcome
           /\ pc' = IF r.outcome = "ok" THEN "returned" ELSE "raised"
    /\ UNCHANGED <<call, run, in_data, init_pos, out_data, bufsize, has_id3v2,
                   has_id3v1, start_position, end_position, buffer_cycles,
                   last_bufsize, cycles, buffer, bytes_written>>

\* strip_id3, the try statement: an ID3v2HeaderError is caught, any other
\* exception leaves strip_id3
StripReadHeader ==
    /\ call = "strip_id3"
    /\ pc = "call"
    /\ LET r == read_id3v2_header(in_data, in_pos)
       IN  /\ in_pos' = r.pos
           /\ id3v2_header' = r.header
           /\ has_id3v2' = (r.outcome = "ok")
           /\ error' = IF r.outcome \in ID3v2HeaderError \cup {"ok"}
                       THEN "none" ELSE r.outcome
           /\ pc' = IF r.outcome \in ID3v2HeaderError \cup {"ok"}
                    THEN "select_start" ELSE "raised"
    /\ UNCHANGED <<call, run, in_data, init_pos, out_data, bufsize, has_id3v1,
                   start_position, end_position, buffer_cycles, last_bufsize,
                   cycles, buffer, bytes_written>>

\* strip_id3, if has_id3v2: the version test and the seek past the tag
StripSelectStart ==
    /\ pc = "select_start"
    /\ IF has_id3v2 /\ id3v2_header.major_version \notin SUPPORTED_VERSIONS
       THEN /\ pc' = "raised"
            /\ error' = "UnsupportedVersion"
            /\ UNCHANGED <<in_pos, start_position>>
       ELSE IF has_id3v2
       THEN /\ in_pos' = id3v2_header.tag_size + ID3v2_HEADER_LENGTH
            /\ start_position' = id3v2_header.tag_size + ID3v2_HEADER_LENGTH
            /\ pc' = "check_id3v1"
            /\ UNCHANGED error
       ELSE /\ start_position' = 0
            /\ pc' = "check_id3v1"
            /\ UNCHANGED <<in_pos, error>>
    /\ UNCHANGED <<call, run, in_data, init_pos, out_data, bufsize,
                   id3v2_header, has_id3v2, has_id3v1, end_position,
                   buffer_cycles, last_bufsize, cycles, buffer, bytes_written>>

\* the test of "if not (has_id3v1 or has_id3v2): raise ValueError"
NoMetadata_never(v1, v2) == FALSE

NoMetadata(v1, v2) == ~(v1 \/ v2)

\* strip_id3: the ID3v1 probe and the error when there is no metadata
StripCheckId3v1 ==
    /\ pc = "check_id3v1"
    /\ LET r == check_id3v1(in_data, in_pos)
       IN  /\ in_pos' = r.pos
           /\ has_id3v1' = r.has
           /\ end_position' = r.offset
           /\ error' = IF r.raised THEN "OSError"
                       ELSE IF NoMetadata(r.has, has_id3v2) THEN "NoMetadataFound"
                       ELSE "none"
           /\ pc' = IF r.raised \/ NoMetadata(r.has, has_id3v2)
                    THEN "raised" ELSE "begin_copy"
    /\ UNCHANGED <<call, run, in_data, init_pos, out_data, bufsize,
                   id3v2_header, has_id3v2, start_position, buffer_cycles,
                   last_bufsize, cycles, buffer, bytes_written>>

\* strip_id3: the seek to start_position and what precedes either loop
StripBeginCopy ==
    /\ pc = "begin_copy"
    /\ bytes_written' = 0
    /\ IF has_id3v1
       THEN /\ in_pos' = start_position
            /\ buffer_cycles' = (end_position - start_position) \div bufsize
            /\ last_bufsize' = (end_position - start_position) % bufsize
            /\ cycles' = 0
            /\ pc' = "copy_exact"
            /\ UNCHANGED buffer
       ELSE /\ buffer' = Read(in_data, start_position, bufsize)
            /\ in_pos' = start_position + Len(buffer')
            /\ pc' = "copy_to_eof"
            /\ UNCHANGED <<buffer_cycles, last_bufsize, cycles>>
    /\ UNCHANGED <<call, run, in_data, init_pos, out_data, bufsize, error,
                   id3v2_header, has_id3v2, has_id3v1, start_position,
                   end_position>>

\* one turn of "while cycles < buffer_cycles"
StripCopyCycle ==
    /\ pc = "copy_exact"
    /\ cycles < buffer_cycles
    /\ LET chunk == Read(in_data, in_pos, bufsize)
       IN  /\ in_pos' = in_pos + Len(chunk)
           /\ out_data' = out_data \o chunk
           /\ bytes_written' = bytes_written + Len(chunk)
    /\ cycles' = cycles + 1
    /\ UNCHANGED <<call, run, in_data, init_pos, bufsize, pc, error,
                   id3v2_header, has_id3v2, has_id3v1, start_position,
                   end_position, buffer_cycles, last_bufsize, buffer>>

StripCopyLast_skipped ==
    /\ pc = "copy_exact"
    /\ ~(cycles < buffer_cycles)
    /\ pc' = "returned"
    /\ UNCHANGED <<call, run, in_data, in_pos, init_pos, out_data, bufsize,
                   error, id3v2_header, has_id3v2, has_id3v1, start_position,
                   end_position, buffer_cycles, last_bufsize, cycles, buffer,
                   bytes_written>>

\* the else clause of the while loop, then "return bytes_written"
StripCopyLast ==
    /\ pc = "copy_exact"
    /\ ~(cycles < buffer_cycles)
    /\ LET chunk == Read(in_data, in_pos, last_bufsize)
       IN  /\ in_pos' = in_pos + Len(chunk)
           /\ out_data' = out_data \o chunk
           /\ bytes_written' = bytes_written + Len(chunk)
    /\ pc' = "returned"
    /\ UNCHANGED <<call, run, in_data, init_pos, bufsize, error,
                   id3v2_header, has_id3v2, has_id3v1, start_position,
                   end_position, buffer_cycles, last_bufsize, cycles, buffer>>

\* one turn of "while buffer"
StripCopyToEOF ==
    /\ pc = "copy_to_eof"
    /\ buffer # << >>
    /\ out_data' = out_data \o buffer
    /\ bytes_written' = bytes_written + Len(buffer)
    /\ buffer' = Read(in_data, in_pos, bufsize)
    /\ in_pos' = in_pos + Len(buffer')
    /\ UNCHANGED <<call, run, in_data, init_pos, bufsize, pc, error,
                   id3v2_header, has_id3v2, has_id3v1, start_position,
                   end_position, buffer_cycles, last_bufsize, cycles>>

\* "while buffer" ends on an empty read, then "return bytes_written"
StripCopyEOFDone ==
    /\ pc = "copy_to_eof"
    /\ buffer = << >>
    /\ pc' = "returned"
    /\ UNCHANGED <<call, run, in_data, in_pos, init_pos, out_data, bufsize,
                   error, id3v2_header, has_id3v2, has_id3v1, start_position,
                   end_position, buffer_cycles, last_bufsize, cycles, buffer,
                   bytes_written>>

\* strip_id3 is called again, on a file holding what the first call wrote
Restrip ==
    /\ call = "strip_id3"
    /\ run = 1
    /\ pc = "returned"
    /\ run' = 2
    /\ in_data' = out_data
    /\ in_pos' = 0
    /\ out_data' = << >>
    /\ pc' = "call"
    /\ error' = "none"
    /\ id3v2_header' = NoHeader
    /\ has_id3v2' = FALSE
    /\ has_id3v1' = FALSE
    /\ start_position' = 0
    /\ end_position' = 0
    /\ buffer_cycles' = 0
    /\ last_bufsize' = 0
    /\ cycles' = 0
    /\ buffer' = << >>
    /\ bytes_written' = 0
    /\ UNCHANGED <<call, init_pos, bufsize>>

Next ==
    \/ ProbeHeader
    \/ StripReadHeader
    \/ StripSelectStart
    \/ StripCheckId3v1
    \/ StripBeginCopy
    \/ StripCopyCycle
    \/ StripCopyLast
    \/ StripCopyToEOF
    \/ StripCopyEOFDone
    \/ Restrip

Spec == Init /\ [][Next]_vars

----------------------------------------------------------------------------
(* What the properties say of an input, read off its bytes *)

Final == pc \in {"returned", "raised"}

\* the input begins with the identifier "ID3"
BeginsWithID3(data) == Len(data) >= 3 /\ SubSeq(data, 1, 3) = <<73, 68, 51>>

\* a whole 10-byte header: version and revision are not 255 and every size
\* byte is below 128
WellFormedHeader(data) ==
    /\ Len(data) >= 10
    /\ BeginsWithID3(data)
    /\ data[4] # 255
    /\ data[5] # 255
    /\ \A i \in 7..10 : data[i] < 128

WellFormedV3(data) == WellFormedHeader(data) /\ data[4] = 3

\* b0*2^21 + b1*2^14 + b2*2^7 + b3 of the four size bytes
DeclaredTagSize(data) ==
    data[7] * (2 ^ 21) + data[8] * (2 ^ 14) + data[9] * (2 ^ 7) + data[10]

\* the bytes "TAG" at offset file_size - 128
TagAtEnd(data) ==
    /\ Len(data) >= 128
    /\ SubSeq(data, Len(data) - 127, Len(data) - 125) = <<84, 65, 71>>

PayloadStart(data) == IF WellFormedV3(data) THEN 10 + DeclaredTagSize(data) ELSE 0

PayloadEnd(data) == IF TagAtEnd(data) THEN Len(data) - 128 ELSE Len(data)

----------------------------------------------------------------------------
(* The properties *)

\* C1: on an input of at least 128 bytes that has a well-formed version 3
\* header (start = 10 + tag_size) or no "ID3" identifier at all (start = 0),
\* and has one of that header and "TAG" at file_size - 128 (end = file_size
\* - 128 with the tag, file_size without), with start <= end, strip_id3
\* returns, for every bufsize, having written exactly the bytes [start, end)
\* in order, and the count it returns is end - start.
C1_PayloadCopied ==
    ( /\ call = "strip_id3"
      /\ Final
      /\ Len(in_data) >= 128
      /\ WellFormedV3(in_data) \/ ~BeginsWithID3(in_data)
      /\ WellFormedV3(in_data) \/ TagAtEnd(in_data)
      /\ PayloadStart(in_data) <= PayloadEnd(in_data) )
    => /\ pc = "returned"
       /\ out_data = SubSeq(in_data, PayloadStart(in_data) + 1, PayloadEnd(in_data))
       /\ bytes_written = PayloadEnd(in_data) - PayloadStart(in_data)

\* C1 happens: a file with both tags and a payload between them was copied
\* in several chunks, the last one shorter than bufsize.
C1_Witness ==
    /\ call = "strip_id3"
    /\ run = 1
    /\ pc = "returned"
    /\ WellFormedV3(in_data)
    /\ TagAtEnd(in_data)
    /\ DeclaredTagSize(in_data) > 0
    /\ bufsize < bytes_written
    /\ last_bufsize > 0
    /\ bytes_written = PayloadEnd(in_data) - PayloadStart(in_data)

\* C2: when start > end (10 + tag_size of a well-formed version 3 header
\* exceeds file_size - 128 with an ID3v1 tag, or file_size without one),
\* strip_id3 fails with CorruptHeader and writes nothing.  Stated for the
\* inputs of 128 bytes or more, on which the ID3v1 probe can seek.
C2_CorruptHeaderRaised ==
    ( /\ call = "strip_id3"
      /\ Final
      /\ Len(in_data) >= 128
      /\ WellFormedV3(in_data)
      /\ PayloadStart(in_data) > PayloadEnd(in_data) )
    => /\ pc = "raised"
       /\ error = "CorruptHeader"
       /\ out_data = << >>

\* C3: on a stream that begins with "ID3", version and revision not 255,
\* read_id3v2_header fails with the invalid-size error, returning no header,
\* whenever one of the four size bytes is 128 or more.
C3_SizeByteRejected ==
    ( /\ call = "read_id3v2_header"
      /\ Final
      /\ Len(in_data) >= 10
      /\ BeginsWithID3(in_data)
      /\ in_data[4] # 255
      /\ in_data[5] # 255
      /\ \E i \in 7..10 : in_data[i] >= 128 )
    => /\ pc = "raised"
       /\ error = "InvalidSize"
       /\ id3v2_header = NoHeader

\* C4: whenever the header parser fails with InvalidVersion or InvalidSize
\* on the input, strip_id3 fails with that error, with or without a trailing
\* ID3v1 tag; only HeaderAbsent makes it fall back to start = 0.  Stated for
\* the inputs of 128 bytes or more, on which the ID3v1 probe can seek.
C4_ParserErrorsPropagate ==
    ( /\ call = "strip_id3"
      /\ Final
      /\ Len(in_data) >= 128
      /\ read_id3v2_header(in_data, 0).outcome \in {"InvalidVersion", "InvalidSize"} )
    => /\ pc = "raised"
       /\ error = read_id3v2_header(in_data, 0).outcome

\* C5: after read_id3v2_header finishes, on any outcome, the stream's read
\* position is the one it had before the call.
C5_PositionRestored ==
    (call = "read_id3v2_header" /\ Final) => in_pos = init_pos

C8_UnsupportedVersionRaised ==
    ( /\ call = "strip_id3"
      /\ WellFormedHeader(in_data)
      /\ in_data[4] # 3 )
    => /\ out_data = << >>
       /\ pc # "returned"
       /\ Final => error = "UnsupportedVersion"

\* C8 happens: strip_id3 has failed with UnsupportedVersion on a version 4
\* file that ends with an ID3v1 tag.
C8_Witness ==
    /\ call = "strip_id3"
    /\ pc = "raised"
    /\ error = "UnsupportedVersion"
    /\ WellFormedHeader(in_data)
    /\ in_data[4] = 4
    /\ TagAtEnd(in_data)

\* C9: for a well-formed header, so four size bytes b0..b3 each in 0..127,
\* read_id3v2_header returns a header whose tag_size is
\* b0*2^21 + b1*2^14 + b2*2^7 + b3, a number in 0..2^28-1.
C9_TagSizeDecoded ==
    ( /\ call = "read_id3v2_header"
      /\ Final
      /\ WellFormedHeader(in_data) )
    => /\ pc = "returned"
       /\ id3v2_header.tag_size = DeclaredTagSize(in_data)
       /\ id3v2_header.tag_size \in 0..(2 ^ 28 - 1)

\* C9 happens: the size bytes 127, 127, 127, 127 were decoded to 2^28 - 1.
C9_Witness ==
    /\ call = "read_id3v2_header"
    /\ pc = "returned"
    /\ Len(in_data) = 10
    /\ SubSeq(in_data, 7, 10) = <<127, 127, 127, 127>>
    /\ id3v2_header.tag_size = 2 ^ 28 - 1

\* C10: on a stream that begins with "ID3" and is shorter than 10 bytes,
\* read_id3v2_header fails and returns no header.
C10_HeaderNeedsTenBytes ==
    ( /\ call = "read_id3v2_header"
      /\ Final
      /\ BeginsWithID3(in_data)
      /\ Len(in_data) < 10 )
    => /\ pc = "raised"
       /\ id3v2_header = NoHeader

====
